---------------------------- MODULE Spec2Model ----------------------------
(***************************************************************************)
(* JobFinder: the crawl-and-orchestrate pipeline.                          *)
(*                                                                         *)
(*   Spec       the run orchestrator of app.py (_run_scanner,              *)
(*              _scan_one_company, run_status); one employer's crawl is a  *)
(*              single step whose outcome is what crawl_company can        *)
(*              produce: a list of job records, or an exception.           *)
(*   SpecCrawl  one call of crawl_company of crawler/workday.py:           *)
(*              pagination, then the detail stage.                         *)
(*   SpecRetry  one call of _request_with_retry, attempt by attempt.       *)
(*   SpecSeq    the employers of a run one after the other: discovery as   *)
(*              one step, the detail pool of each employer in full.        *)
(*   SpecOutage a run while every request attempt fails, with weak         *)
(*              fairness of the run's thread; database writes succeed.     *)
(*   SpecUrl    one call of parse_workday_url.                             *)
(*   SpecFilter the filter loop and the scoring call of one employer,      *)
(*              app.py 185-218.                                            *)
(*   SpecDay    the reads of date.today() of a run while the calendar day  *)
(*              may change.                                                *)
(*   SpecStart  start_run and run_status of app.py with the scanner        *)
(*              threads of several runs, in coarse steps.                  *)
(*                                                                         *)
(* Failure model: every database write (update_run,                        *)
(* update_company_run_status, upsert_jobs_batch) and every collaborator    *)
(* called inside _scan_one_company may raise.  The three reads at the top  *)
(* of _run_scanner are taken to succeed.                                   *)
(***************************************************************************)
EXTENDS Integers, Sequences, FiniteSets, TLC

\* ------------------------------------------------------------------ bounds
MaxCompanies == 2      \* employers in the companies table
MaxJobs == 2           \* job records one crawl returns
MaxItems == 2          \* postings on one discovery page
MaxPages == 2          \* pages the total of the first page announces
MaxStubs == 2          \* "Posted Today" stubs one employer has
MaxTail == 3           \* path segments and query marks after the host of a URL

\* --------------------------------------------------------------- constants
NoCompaniesMsg == "No companies loaded"
NoResumeMsg == "No resume uploaded"

VARIABLES
    \* ---- orchestrator (app.py)
    dbCompanies,    \* number of rows of the companies table, in name order 1..n
    dbResume,       \* TRUE iff the resume table has the 'default' row
    pc,             \* position of the scanner thread
    active,         \* TRUE iff run_id is a key of _active_runs
    rs,             \* _active_runs[run_id], the live RunState
    dbRun,          \* the row of the runs table of this run
    companyStatus,  \* companies.last_run_status, by employer
    statusLog,      \* the status writes that were committed, in order
    jobRows,        \* job rows upserted by this run, by employer
    ci,             \* loop index of _run_scanner (0-based)
    total_found,    \* local of _run_scanner
    total_returned, \* local of _run_scanner
    found,          \* local of _scan_one_company
    passed,         \* len(filtered_jobs)
    exc,            \* the exception in flight, "" when none
    ret,            \* the pair _scan_one_company returns
    crawled,        \* history: what each employer's crawl returned (-1: none)
    lastPoll,       \* the last answer of run_status
    prevPoll        \* the answer of run_status before that one

orchVars == <<dbCompanies, dbResume, pc, active, rs, dbRun, companyStatus,
              statusLog, jobRows, ci, total_found, total_returned, found,
              passed, exc, ret, crawled, lastPoll, prevPoll>>

VARIABLES
    \* ---- one logical request (_request_with_retry)
    req             \* the call: position, attempt, response in hand, log

retryVars == <<req>>

VARIABLES
    \* ---- one crawl (crawl_company)
    cpc,            \* position inside crawl_company
    offset,         \* local of fetch_all_listings
    total,          \* local of fetch_all_listings, -1 for None
    today_jobs,     \* local of fetch_all_listings
    seen_non_today, \* local of fetch_all_listings
    fetched,        \* history: what each fetch_listings call gave
    listings,       \* local of crawl_company
    today,          \* local of crawl_company: date.today()
    tasks,          \* the futures of the pool, by index of the listing
    completed,      \* futures that finished and as_completed has not yielded yet
    enriched,       \* local of crawl_company
    done_count,     \* local of crawl_company
    cbLog,          \* history: the progress callbacks of the detail phase
    crawlExc        \* the exception crawl_company ends with, "" when none

crawlVars == <<cpc, offset, total, today_jobs, seen_non_today, fetched, listings,
               today, tasks, completed, enriched, done_count, cbLog, crawlExc>>

VARIABLES
    \* ---- the employers of one run, one crawl after the other
    emp,            \* index of the employer whose crawl_company call this is
    poolLog         \* history: per employer scanned, its stubs and how its crawl ended

seqVars == <<emp, poolLog>>

VARIABLES
    \* ---- one call of a pure function
    url,            \* the argument of parse_workday_url
    parseResult,    \* what parse_workday_url returned
    jobs,           \* local of _scan_one_company: what crawl_company returned
    filterOut,      \* locals of _scan_one_company after filtering and scoring
    clock,          \* the calendar day date.today() answers at this moment
    dayEmp,         \* the employer being processed while the days pass
    dayPc,          \* where that employer's processing stands
    dayJobs,        \* records of that employer is_posted_today has been called for
    refDays,        \* history of the date.today() reads: <<employer, stage, day>>
    startReq,       \* per start request: how far start_run has come
    runsTable,      \* per run id: the status column of its row in runs, or "absent"
    activeRuns,     \* per run id: the status of its entry in _active_runs, or "absent"
    scanner,        \* per run id: the state of its _run_scanner thread
    statusReply     \* what the last run_status query answered

urlVars == <<url, parseResult>>
filterVars == <<jobs, filterOut>>
dayVars == <<clock, dayEmp, dayPc, dayJobs, refDays>>
startVars == <<startReq, runsTable, activeRuns, scanner, statusReply>>
fnVars == <<urlVars, filterVars, dayVars, startVars>>

vars == <<orchVars, retryVars, crawlVars, seqVars, fnVars>>

Companies == 1..MaxCompanies

\* ---------------------------------------------------------------- helpers

RECURSIVE SumOver(_, _)
SumOver(S, f) ==
    IF S = {} THEN 0
    ELSE LET x == CHOOSE y \in S : TRUE IN f[x] + SumOver(S \ {x}, f)

\* ------------------------------------------------------- _run_scanner
\* app.py 266-275: the RunState a run is registered with
InitialRunState ==
    [status |-> "running", current_company |-> 0, companies_done |-> 0,
     total_companies |-> 0, jobs_found |-> 0, jobs_returned |-> 0,
     errors |-> <<>>, phase |-> <<"starting">>]

\* the values of the error_log column: NULL, a message (str(e) or a literal of
\* app.py 284, 291, 341), or the JSON text json.dumps makes of a list (app.py 333)
NullLog == [kind |-> "null", msg |-> "", list |-> <<>>]
TextLog(m) == [kind |-> "text", msg |-> m, list |-> <<>>]
JsonDumps(errs) == [kind |-> "json", msg |-> "", list |-> errs]

\* database.py 236-247 and app.py 357: the row start_run leaves behind
CreatedRun(n) ==
    [status |-> "running", total_companies |-> n, total_jobs_found |-> 0,
     total_jobs_returned |-> 0, error_log |-> NullLog, finished |-> FALSE]

\* mutant: the resume check of app.py 288 is missing
PreconditionFailure_CompaniesOnly(companies, resume) ==
    IF companies = 0 THEN NoCompaniesMsg ELSE ""

\* app.py 281 / 288: the precondition that aborts the run, "" when it holds
PreconditionFailure(companies, resume) ==
    IF companies = 0 THEN NoCompaniesMsg
    ELSE IF ~resume THEN NoResumeMsg
    ELSE ""

\* mutant: the count of the employers still to do is stored instead
CompaniesDoneAfter_Remaining(i) == rs.total_companies - (i + 1)

\* app.py 321: the value companies_done takes after employer ci (0-based)
CompaniesDoneAfter(i) == i + 1

\* database.py 250-261: update_run sets the given columns of the row
UpdateRun(row, cols) == [k \in DOMAIN row |-> IF k \in DOMAIN cols THEN cols[k] ELSE row[k]]

\* database.py 126-134: update_company_run_status, a committed write
WriteStatus(c, s) ==
    /\ companyStatus' = [companyStatus EXCEPT ![c] = s]
    /\ statusLog' = Append(statusLog, <<c, s>>)

NoStatusWrite == UNCHANGED <<companyStatus, statusLog>>

\* app.py 263-275
RunScannerStart ==
    /\ pc = "spawned"
    /\ active' = TRUE
    /\ rs' = InitialRunState
    /\ pc' = "load"
    /\ UNCHANGED <<dbCompanies, dbResume, dbRun, companyStatus, statusLog, jobRows,
                   ci, total_found, total_returned, found, passed, exc, ret,
                   crawled, lastPoll, prevPoll,
                   retryVars, crawlVars, seqVars, fnVars>>

\* app.py 277-293: a precondition fails; the abort is written to the run row
AbortPrecondition ==
    /\ pc = "load"
    /\ LET msg == PreconditionFailure(dbCompanies, dbResume) IN
       /\ msg # ""
       /\ rs' = [rs EXCEPT !.status = "error", !.phase = <<msg>>]
       /\ \E ok \in BOOLEAN :
            IF ok
            THEN /\ dbRun' = UpdateRun(dbRun, [status |-> "error", error_log |-> TextLog(msg),
                                               finished |-> TRUE])
                 /\ pc' = "returned"
                 /\ exc' = exc
            ELSE /\ dbRun' = dbRun
                 /\ pc' = "fatal"
                 /\ exc' = "update_run"
    /\ UNCHANGED <<dbCompanies, dbResume, active, companyStatus, statusLog, jobRows,
                   ci, total_found, total_returned, found, passed, ret,
                   crawled, lastPoll, prevPoll,
                   retryVars, crawlVars, seqVars, fnVars>>

\* app.py 277-311: both preconditions hold; the loop is set up
LoadConfig ==
    /\ pc = "load"
    /\ PreconditionFailure(dbCompanies, dbResume) = ""
    /\ rs' = [rs EXCEPT !.total_companies = dbCompanies]
    /\ ci' = 0
    /\ total_found' = 0
    /\ total_returned' = 0
    /\ pc' = "loop"
    /\ UNCHANGED <<dbCompanies, dbResume, active, dbRun, companyStatus, statusLog,
                   jobRows, found, passed, exc, ret, crawled, lastPoll, prevPoll,
                   retryVars, crawlVars, seqVars, fnVars>>

\* app.py 314-315 and 159-162: the loop takes the next employer
NextCompany ==
    /\ pc = "loop"
    /\ ci < rs.total_companies
    /\ rs' = [rs EXCEPT !.current_company = ci + 1, !.phase = <<"Scanning", ci + 1>>]
    /\ found' = 0
    /\ passed' = 0
    /\ exc' = ""
    /\ pc' = "resolve"
    /\ UNCHANGED <<dbCompanies, dbResume, active, dbRun, companyStatus, statusLog,
                   jobRows, ci, total_found, total_returned, ret, crawled, lastPoll, prevPoll,
                   retryVars, crawlVars, seqVars, fnVars>>

\* app.py 164-173: parse_workday_url gives coordinates, None, or raises
ResolveUrl ==
    /\ pc = "resolve"
    /\ \E parsed \in {"coords", "None", "raise"} :
         CASE parsed = "coords" ->
                /\ pc' = "crawl"
                /\ UNCHANGED <<rs, exc, ret>>
                /\ NoStatusWrite
           [] parsed = "raise" ->
                /\ pc' = "handler"
                /\ exc' = "parse_workday_url"
                /\ UNCHANGED <<rs, ret>>
                /\ NoStatusWrite
           [] parsed = "None" ->
                /\ rs' = [rs EXCEPT !.errors = Append(@, <<ci + 1, "Invalid Workday URL">>)]
                /\ \E ok \in BOOLEAN :
                     IF ok
                     THEN /\ WriteStatus(ci + 1, "invalid_url")
                          /\ ret' = <<0, 0>>
                          /\ pc' = "ret"
                          /\ exc' = exc
                     ELSE /\ NoStatusWrite
                          /\ ret' = ret
                          /\ pc' = "handler"
                          /\ exc' = "update_company_run_status"
    /\ UNCHANGED <<dbCompanies, dbResume, active, dbRun, jobRows, ci, total_found,
                   total_returned, found, passed, crawled, lastPoll, prevPoll,
                   retryVars, crawlVars, seqVars, fnVars>>

\* app.py 175-183: crawl_company returns n records or raises
CrawlCompany ==
    /\ pc = "crawl"
    /\ \/ /\ pc' = "handler"
          /\ exc' = "crawl_company"
          /\ UNCHANGED <<rs, found, crawled>>
       \/ \E n \in 0..MaxJobs :
            /\ found' = n
            /\ crawled' = [crawled EXCEPT ![ci + 1] = n]
            /\ rs' = [rs EXCEPT !.jobs_found = @ + n,
                                !.phase = <<"Filtering", ci + 1, n>>]
            /\ pc' = "filter"
            /\ exc' = exc
    /\ UNCHANGED <<dbCompanies, dbResume, active, dbRun, companyStatus, statusLog,
                   jobRows, ci, total_found, total_returned, passed, ret, lastPoll, prevPoll,
                   retryVars, crawlVars, seqVars, fnVars>>

\* app.py 185-214: the three filters keep p of the records, or one of them raises
FilterJobs ==
    /\ pc = "filter"
    /\ \/ /\ pc' = "handler"
          /\ exc' = "filter"
          /\ UNCHANGED <<rs, passed, ret>>
          /\ NoStatusWrite
       \/ \E p \in 0..found :
            /\ passed' = p
            /\ IF p = 0
               THEN /\ rs' = rs
                    /\ \E ok \in BOOLEAN :
                         IF ok
                         THEN /\ WriteStatus(ci + 1, "success")
                              /\ ret' = <<found, 0>>
                              /\ pc' = "ret"
                              /\ exc' = exc
                         ELSE /\ NoStatusWrite
                              /\ ret' = ret
                              /\ pc' = "handler"
                              /\ exc' = "update_company_run_status"
               ELSE /\ rs' = [rs EXCEPT !.phase = <<"Scoring", ci + 1, p>>]
                    /\ pc' = "score"
                    /\ UNCHANGED <<exc, ret>>
                    /\ NoStatusWrite
    /\ UNCHANGED <<dbCompanies, dbResume, active, dbRun, jobRows, ci, total_found,
                   total_returned, found, crawled, lastPoll, prevPoll,
                   retryVars, crawlVars, seqVars, fnVars>>

\* app.py 216-244: score_jobs_batch and the building of the job records
ScoreJobs ==
    /\ pc = "score"
    /\ \/ /\ pc' = "handler"
          /\ exc' = "score_jobs_batch"
       \/ /\ pc' = "write"
          /\ exc' = exc
    /\ UNCHANGED <<dbCompanies, dbResume, active, rs, dbRun, companyStatus, statusLog,
                   jobRows, ci, total_found, total_returned, found, passed, ret,
                   crawled, lastPoll, prevPoll,
                   retryVars, crawlVars, seqVars, fnVars>>

\* mutant: the counter is assigned this employer's count
JobsReturnedAfter_Assigned(sofar, returned) == returned

\* app.py 249-250: the run's counter grows by this employer's count
JobsReturnedAfter(sofar, returned) == sofar + returned

\* app.py 246-250 and database.py 169-200: the batch write, all rows or none
WriteBatch ==
    /\ pc = "write"
    /\ \/ /\ pc' = "handler"
          /\ exc' = "upsert_jobs_batch"
          /\ UNCHANGED <<rs, jobRows>>
       \/ /\ jobRows' = [jobRows EXCEPT ![ci + 1] = passed]
          /\ rs' = [rs EXCEPT !.jobs_returned = JobsReturnedAfter(@, passed)]
          /\ pc' = "status"
          /\ exc' = exc
    /\ UNCHANGED <<dbCompanies, dbResume, active, dbRun, companyStatus, statusLog,
                   ci, total_found, total_returned, found, passed, ret, crawled,
                   lastPoll, prevPoll,
                   retryVars, crawlVars, seqVars, fnVars>>

\* app.py 252-253
MarkSuccess ==
    /\ pc = "status"
    /\ \E ok \in BOOLEAN :
         IF ok
         THEN /\ WriteStatus(ci + 1, "success")
              /\ ret' = <<found, passed>>
              /\ pc' = "ret"
              /\ exc' = exc
         ELSE /\ NoStatusWrite
              /\ ret' = ret
              /\ pc' = "handler"
              /\ exc' = "update_company_run_status"
    /\ UNCHANGED <<dbCompanies, dbResume, active, rs, dbRun, jobRows, ci, total_found,
                   total_returned, found, passed, crawled, lastPoll, prevPoll,
                   retryVars, crawlVars, seqVars, fnVars>>

\* app.py 255-260: the employer boundary; its own status write may raise
HandleError ==
    /\ pc = "handler"
    /\ rs' = [rs EXCEPT !.errors = Append(@, <<ci + 1, exc>>)]
    /\ \E ok \in BOOLEAN :
         IF ok
         THEN /\ WriteStatus(ci + 1, "error")
              /\ ret' = <<0, 0>>
              /\ pc' = "ret"
              /\ exc' = ""
         ELSE /\ NoStatusWrite
              /\ ret' = ret
              /\ pc' = "fatal"
              /\ exc' = "update_company_run_status"
    /\ UNCHANGED <<dbCompanies, dbResume, active, dbRun, jobRows, ci, total_found,
                   total_returned, found, passed, crawled, lastPoll, prevPoll,
                   retryVars, crawlVars, seqVars, fnVars>>

\* app.py 316-321: back in the loop of _run_scanner
CompanyDone ==
    /\ pc = "ret"
    /\ total_found' = total_found + ret[1]
    /\ total_returned' = total_returned + ret[2]
    /\ rs' = [rs EXCEPT !.companies_done = CompaniesDoneAfter(ci)]
    /\ ci' = ci + 1
    /\ pc' = "loop"
    /\ UNCHANGED <<dbCompanies, dbResume, active, dbRun, companyStatus, statusLog,
                   jobRows, found, passed, exc, ret, crawled, lastPoll, prevPoll,
                   retryVars, crawlVars, seqVars, fnVars>>

\* app.py 323-335: finalization
Finalize ==
    /\ pc = "loop"
    /\ ci >= rs.total_companies
    /\ rs' = [rs EXCEPT !.status = "done", !.phase = <<"Complete">>]
    /\ \E ok \in BOOLEAN :
         IF ok
         THEN /\ dbRun' = UpdateRun(dbRun,
                    [status |-> "done", finished |-> TRUE,
                     total_companies |-> rs.total_companies,
                     total_jobs_found |-> total_found,
                     total_jobs_returned |-> total_returned,
                     error_log |-> IF rs.errors # <<>> THEN JsonDumps(rs.errors)
                                  ELSE NullLog])
              /\ pc' = "returned"
              /\ exc' = exc
         ELSE /\ dbRun' = dbRun
              /\ pc' = "fatal"
              /\ exc' = "update_run"
    /\ UNCHANGED <<dbCompanies, dbResume, active, companyStatus, statusLog, jobRows,
                   ci, total_found, total_returned, found, passed, ret, crawled,
                   lastPoll, prevPoll,
                   retryVars, crawlVars, seqVars, fnVars>>

\* app.py 337-342: the outer handler of _run_scanner
FatalError ==
    /\ pc = "fatal"
    /\ rs' = [rs EXCEPT !.status = "error", !.phase = <<exc>>]
    /\ \E ok \in BOOLEAN :
         IF ok
         THEN /\ dbRun' = UpdateRun(dbRun, [status |-> "error", error_log |-> TextLog(exc),
                                            finished |-> TRUE])
              /\ pc' = "returned"
         ELSE /\ dbRun' = dbRun
              /\ pc' = "died"
    /\ UNCHANGED <<dbCompanies, dbResume, active, companyStatus, statusLog, jobRows,
                   ci, total_found, total_returned, found, passed, exc, ret,
                   crawled, lastPoll, prevPoll,
                   retryVars, crawlVars, seqVars, fnVars>>

\* app.py 366-378: a progress query
RunStatus ==
    /\ lastPoll' = IF active
                   THEN [src |-> "live", companies_done |-> rs.companies_done]
                   ELSE [src |-> "db", companies_done |-> 0]
    /\ prevPoll' = lastPoll
    /\ UNCHANGED <<dbCompanies, dbResume, pc, active, rs, dbRun, companyStatus,
                   statusLog, jobRows, ci, total_found, total_returned, found,
                   passed, exc, ret, crawled, retryVars, crawlVars, seqVars, fnVars>>

\* ------------------------------------------------ _request_with_retry
\* crawler/workday.py 64-88.  A response is an HTTP status or a transport
\* failure (timeout, connection error: a RequestException without a status).
MAX_RETRIES == 3

Http(s) == [kind |-> "http", status |-> s]
Transport == [kind |-> "transport", status |-> 0]
NoResponse == [kind |-> "none", status |-> 0]
Responses == {Http(200), Http(404), Http(429), Http(500), Http(503), Transport}

\* mutant: the backoff grows by addition, not by doubling
Backoff_Linear(attempt) == (attempt + 1) * 2

\* workday.py 76 and 83: the wait after attempt k (0-based)
Backoff(attempt) == (2 ^ attempt) * 2

\* workday.py 72: raise_for_status raises HTTPError for a 4xx or 5xx status
IsHttpError(resp) == resp.kind = "http" /\ resp.status >= 400

\* mutant: every HTTP error status is retried
RetryableStatus_AnyError(status) == status >= 400

\* workday.py 75: the statuses that are retried
RetryableStatus(status) == status = 429 \/ status >= 500

\* a call that has not made its first attempt; clock counts the seconds slept
NewRequest ==
    [state |-> "try", attempt |-> 0, resp |-> NoResponse, clock |-> 0,
     result |-> "", events |-> <<>>]

Event(what, k, resp, secs, at) ==
    [ev |-> what, k |-> k, resp |-> resp, secs |-> secs, at |-> at]

\* workday.py 69-75, 80-82: one pass of the loop up to its sleep, return or raise
AttemptStep(rc, resp) ==
    LET base == [rc EXCEPT !.resp = resp,
                           !.events = Append(@, Event("attempt", rc.attempt, resp, 0, rc.clock))]
    IN  IF resp.kind = "transport" THEN [base EXCEPT !.state = "sleep"]
        ELSE IF ~IsHttpError(resp) THEN [base EXCEPT !.state = "returned", !.result = "json"]
        ELSE IF RetryableStatus(resp.status) THEN [base EXCEPT !.state = "sleep"]
        ELSE [base EXCEPT !.state = "raised", !.result = "raise"]

\* mutant: after the sleep the loop always goes round again
SleepStep_NeverGivesUp(rc) ==
    [rc EXCEPT !.clock = @ + Backoff(rc.attempt),
               !.events = Append(@, Event("sleep", rc.attempt, rc.resp,
                                          Backoff(rc.attempt), rc.clock)),
               !.state = "try", !.attempt = @ + 1]

\* workday.py 76-79, 83-88: the sleep, then continue, re-raise, or leave the loop
SleepStep(rc) ==
    LET wait == Backoff(rc.attempt)
        slept == [rc EXCEPT !.clock = @ + wait,
                            !.events = Append(@, Event("sleep", rc.attempt, rc.resp, wait, rc.clock))]
    IN  IF rc.resp.kind = "transport" /\ rc.attempt = MAX_RETRIES - 1
        THEN [slept EXCEPT !.state = "raised", !.result = "raise"]
        ELSE IF rc.attempt + 1 < MAX_RETRIES
        THEN [slept EXCEPT !.state = "try", !.attempt = @ + 1]
        ELSE [slept EXCEPT !.state = "returned", !.result = "None"]

\* workday.py 64-88 run to its end on the responses resps[1], resps[2], ...
RECURSIVE RunRequest(_, _)
RunRequest(rc, resps) ==
    IF rc.state = "try" THEN RunRequest(AttemptStep(rc, resps[rc.attempt + 1]), resps)
    ELSE IF rc.state = "sleep" THEN RunRequest(SleepStep(rc), resps)
    ELSE rc

\* what a caller of _request_with_retry can get: parsed JSON, None, or an
\* exception (with the response that caused it)
RequestOutcomes ==
    { LET r == RunRequest(NewRequest, resps)
      IN  [result |-> r.result,
           cause |-> IF r.result = "raise" THEN r.resp ELSE NoResponse]
      : resps \in [1..MAX_RETRIES -> Responses] }

\* workday.py 71-75, 82: an attempt and the response it gets
Attempt ==
    /\ req.state = "try"
    /\ \E resp \in Responses : req' = AttemptStep(req, resp)
    /\ UNCHANGED <<orchVars, crawlVars, seqVars, fnVars>>

\* workday.py 78 and 85: time.sleep(wait) and what follows it
Sleep ==
    /\ req.state = "sleep"
    /\ req' = SleepStep(req)
    /\ UNCHANGED <<orchVars, crawlVars, seqVars, fnVars>>

\* ------------------------------------------------ fetch_all_listings
\* crawler/workday.py 107-158.  A posting of a discovery page carries its
\* postedOn label; the stub kept of it remembers the page and the place it
\* came from.  Whether a posting has the externalPath key is first read by the
\* detail stage, and is drawn there.
PageSize == 20
Labels == {"Posted Today", "Posted Yesterday", "posted today"}
Items == [postedOn : Labels]
Pages == UNION {[1..n -> Items] : n \in 0..MaxItems}
Totals == {0, 1} \cup {k * PageSize + d : k \in 1..MaxPages, d \in {0, 1}}

\* the body of a 200 answer of the discovery endpoint; total -1: no "total" key
ListingPayloads ==
    [hasPostings : {TRUE}, postings : Pages, total : Totals \cup {-1}]
      \cup [hasPostings : {FALSE}, postings : {<<>>}, total : {0}]

\* workday.py 134: the label test, an exact match
IsPostedToday(label) == label = "Posted Today"

\* workday.py 132-137: the stubs a page adds to today_jobs, in page order
RECURSIVE TodayStubs(_, _, _)
TodayStubs(postings, page, i) ==
    IF i > Len(postings) THEN <<>>
    ELSE (IF IsPostedToday(postings[i].postedOn)
          THEN <<[page |-> page, idx |-> i, postedOn |-> postings[i].postedOn]>>
          ELSE <<>>) \o TodayStubs(postings, page, i + 1)

\* mutant: the early stop also applies to the first page
EarlyStop_AnyPage(page_today_count, off) == page_today_count = 0

\* workday.py 146-147: the early stop, tested after offset += page_size
EarlyStop(page_today_count, off) == page_today_count = 0 /\ off > PageSize

PagerLocalsUnchanged == UNCHANGED <<offset, total, today_jobs, seen_non_today>>

\* mutant: the offset is never compared with the total
PastEnd_Never(off, tot) == FALSE

\* workday.py 152: the offset has reached the total the first page reported
PastEnd(off, tot) == off >= tot

\* workday.py 119-155: one pass of the while loop
FetchPage ==
    /\ cpc = "page"
    /\ \E o \in RequestOutcomes :
         CASE o.result = "raise" ->
                \* fetch_listings raised: nothing catches it up to crawl_company's caller
                /\ fetched' = Append(fetched, [kind |-> "raise", postings |-> <<>>])
                /\ cpc' = "raised"
                /\ crawlExc' = o.cause.kind
                /\ PagerLocalsUnchanged
           [] o.result = "None" ->
                /\ fetched' = Append(fetched, [kind |-> "None", postings |-> <<>>])
                /\ cpc' = "listed"
                /\ crawlExc' = crawlExc
                /\ PagerLocalsUnchanged
           [] o.result = "json" ->
                \E data \in ListingPayloads :
                  /\ total # -1 => data.total \in {total, 0, -1, MaxPages * PageSize + 1}
                  /\ IF ~data.hasPostings
                     THEN /\ fetched' = Append(fetched, [kind |-> "nokey", postings |-> <<>>])
                          /\ cpc' = "listed"
                          /\ crawlExc' = crawlExc
                          /\ PagerLocalsUnchanged
                     ELSE IF total = -1 /\ data.total = -1
                     THEN /\ fetched' = Append(fetched, [kind |-> "nototal",
                                                         postings |-> data.postings])
                          /\ cpc' = "raised"
                          /\ crawlExc' = "KeyError"
                          /\ PagerLocalsUnchanged
                     ELSE LET tot == IF total = -1 THEN data.total ELSE total
                              stubs == TodayStubs(data.postings, Len(fetched) + 1, 1)
                              off == offset + PageSize
                          IN  /\ Len(today_jobs) + Len(stubs) <= MaxStubs
                              /\ fetched' = Append(fetched, [kind |-> "json",
                                                             postings |-> data.postings])
                              /\ total' = tot
                              /\ crawlExc' = crawlExc
                              /\ IF data.postings = <<>>
                                 THEN /\ cpc' = "listed"
                                      /\ UNCHANGED <<offset, today_jobs, seen_non_today>>
                                 ELSE /\ today_jobs' = today_jobs \o stubs
                                      /\ seen_non_today' = seen_non_today
                                            + Len(data.postings) - Len(stubs)
                                      /\ offset' = off
                                      /\ cpc' = IF EarlyStop(Len(stubs), off) \/ PastEnd(off, tot)
                                                THEN "listed" ELSE "page"
    /\ UNCHANGED <<listings, today, tasks, completed, enriched, done_count, cbLog>>
    /\ UNCHANGED <<orchVars, retryVars, seqVars, fnVars>>

\* ------------------------------------------------ the detail stage
\* crawler/workday.py 161-262.  A calendar date is a record [y, m, d].  The
\* startDate of a detail answer is absent, the empty string, a JSON number,
\* or a string "y<sep>m<sep>d<time>".
DETAIL_WORKERS == 5
Date(y, m, d) == [y |-> y, m |-> m, d |-> d]
RefDates == {Date(2024, 5, 1), Date(2024, 5, 2)}

StartDate(type, sep, date, time) == [type |-> type, sep |-> sep, date |-> date, time |-> time]
AbsentStartDate == StartDate("absent", "", Date(0, 0, 0), "")
StartDates ==
    {AbsentStartDate,
     StartDate("empty", "", Date(0, 0, 0), ""),
     StartDate("number", "", Date(0, 0, 0), ""),
     StartDate("string", "/", Date(2024, 5, 1), ""),
     StartDate("string", "-", Date(2024, 5, 1), ""),
     StartDate("string", "-", Date(2024, 5, 2), "T23:59:59")}

\* the body of a 200 answer of the detail endpoint
DetailPayloads ==
    [hasInfo : {TRUE}, startDate : StartDates]
      \cup [hasInfo : {FALSE}, startDate : {AbsentStartDate}]

\* workday.py 202: datetime.fromisoformat; a non-string is a TypeError, a
\* string that is not ISO yyyy-mm-dd[Thh:mm:ss] of a real month a ValueError
FromIsoFormat(v) ==
    IF v.type # "string" THEN [ok |-> FALSE, err |-> "TypeError", date |-> Date(0, 0, 0)]
    ELSE IF v.sep = "-" /\ v.date.m \in 1..12 /\ v.date.d \in 1..28
    THEN [ok |-> TRUE, err |-> "", date |-> v.date]
    ELSE [ok |-> FALSE, err |-> "ValueError", date |-> Date(0, 0, 0)]

\* mutant: a stub labelled "Posted Today" is trusted, its startDate not checked
DateCheckDrops_TrustLabel(start_date, ref, label) ==
    /\ label # "Posted Today"
    /\ start_date.type \notin {"absent", "empty"}
    /\ FromIsoFormat(start_date).ok
    /\ FromIsoFormat(start_date).date # ref

\* workday.py 199-209: the secondary date check; TRUE when the record is dropped
DateCheckDrops(start_date, ref, label) ==
    /\ start_date.type \notin {"absent", "empty"}
    /\ FromIsoFormat(start_date).ok
    /\ FromIsoFormat(start_date).date # ref

NewTask == [state |-> "pending", fetch |-> "", start_date |-> AbsentStartDate,
            result |-> ""]

\* workday.py 211-225: the enriched record
Enriched(i, listing, start_date) ==
    [external_path |-> i, start_date |-> start_date,
     posted_label |-> listing.postedOn]

\* mutant: the total reported is the number of records kept so far
DetailTotal_Kept(ls) == Len(enriched)

\* workday.py 244: total = len(listings), read once before the pool starts
DetailTotal(ls) == Len(ls)

Running == {i \in DOMAIN tasks : tasks[i].state = "running"}
Pending == {i \in DOMAIN tasks : tasks[i].state = "pending"}

\* workday.py 157-158 and 241-251: fetch_all_listings returns, crawl_company
\* reads the date and submits one task per listing
SubmitDetails ==
    /\ cpc = "listed"
    /\ \E hasPath \in [1..Len(today_jobs) -> BOOLEAN] :
         listings' = [i \in 1..Len(today_jobs) |->
                         [postedOn |-> today_jobs[i].postedOn,
                          externalPath |-> hasPath[i]]]
    /\ \E dt \in RefDates : today' = dt
    /\ tasks' = [i \in 1..Len(today_jobs) |-> NewTask]
    /\ cpc' = "details"
    /\ offset' = 0
    /\ total' = -1
    /\ today_jobs' = <<>>
    /\ seen_non_today' = 0
    /\ fetched' = <<>>
    /\ UNCHANGED <<completed, enriched, done_count, cbLog, crawlExc>>
    /\ UNCHANGED <<orchVars, retryVars, seqVars, fnVars>>

\* workday.py 247: a free worker of the pool takes the oldest queued task
StartTask(i) ==
    /\ cpc \in {"details", "draining"}
    /\ i \in Pending
    /\ \A j \in Pending : i <= j
    /\ Cardinality(Running) < DETAIL_WORKERS
    /\ tasks' = [tasks EXCEPT ![i].state = "running"]
    /\ UNCHANGED <<cpc, offset, total, today_jobs, seen_non_today, fetched, listings,
                   today, completed, enriched, done_count, cbLog, crawlExc>>
    /\ UNCHANGED <<orchVars, retryVars, seqVars, fnVars>>

\* workday.py 189-228 with 161-184: _fetch_one_detail from its sleep to its end
FetchOneDetail(i) ==
    /\ i \in Running
    /\ LET listing == listings[i]
           Done(fetch, sd, result) ==
               tasks' = [tasks EXCEPT ![i] = [state |-> "done", fetch |-> fetch,
                                             start_date |-> sd, result |-> result]]
       IN  IF ~listing.externalPath
           THEN \* KeyError at 193, and again in the handler's message at 227
                Done("KeyError", AbsentStartDate, "exception")
           ELSE \E o \in RequestOutcomes :
                  CASE o.result = "raise" -> Done("raise", AbsentStartDate, "None")
                    [] o.result = "None" -> Done("None", AbsentStartDate, "None")
                    [] o.result = "json" ->
                         \E d \in DetailPayloads :
                           IF ~d.hasInfo
                           THEN Done("noinfo", AbsentStartDate, "None")
                           ELSE IF DateCheckDrops(d.startDate, today, listing.postedOn)
                           THEN Done("info", d.startDate, "None")
                           ELSE Done("info", d.startDate, "record")
    /\ completed' = completed \cup {i}
    /\ UNCHANGED <<cpc, offset, total, today_jobs, seen_non_today, fetched, listings,
                   today, enriched, done_count, cbLog, crawlExc>>
    /\ UNCHANGED <<orchVars, retryVars, seqVars, fnVars>>

\* workday.py 253-260: as_completed yields a finished future
CollectResult(i) ==
    /\ cpc = "details"
    /\ i \in completed
    /\ completed' = completed \ {i}
    /\ tasks' = [tasks EXCEPT ![i].state = "collected"]
    /\ IF tasks[i].result = "exception"
       THEN \* future.result() raises; the with block waits for the pool
            /\ cpc' = "draining"
            /\ crawlExc' = "KeyError"
            /\ UNCHANGED <<enriched, done_count, cbLog>>
       ELSE /\ enriched' = IF tasks[i].result = "record"
                           THEN Append(enriched, Enriched(i, listings[i], tasks[i].start_date))
                           ELSE enriched
            /\ done_count' = done_count + 1
            /\ cbLog' = Append(cbLog, <<done_count + 1, DetailTotal(listings)>>)
            /\ UNCHANGED <<cpc, crawlExc>>
    /\ UNCHANGED <<offset, total, today_jobs, seen_non_today, fetched, listings, today>>
    /\ UNCHANGED <<orchVars, retryVars, seqVars, fnVars>>

\* workday.py 247, 262: every future was yielded; the pool shuts down
ReturnEnriched ==
    /\ cpc = "details"
    /\ \A i \in DOMAIN tasks : tasks[i].state = "collected"
    /\ cpc' = "returned"
    /\ UNCHANGED <<offset, total, today_jobs, seen_non_today, fetched, listings, today,
                   tasks, completed, enriched, done_count, cbLog, crawlExc>>
    /\ UNCHANGED <<orchVars, retryVars, seqVars, fnVars>>

\* mutant: the pool is left without waiting for its workers
PoolQuiescent_NoWait == TRUE

\* workday.py 247: ThreadPoolExecutor.__exit__ is shutdown(wait=True); it
\* returns when no task is queued or running
PoolQuiescent == Pending = {} /\ Running = {}

\* workday.py 247: leaving the with block on an exception waits for every
\* worker (shutdown(wait=True)), then the exception leaves crawl_company
RaiseAfterShutdown ==
    /\ cpc = "draining"
    /\ PoolQuiescent
    /\ cpc' = "raised"
    /\ UNCHANGED <<offset, total, today_jobs, seen_non_today, fetched, listings, today,
                   tasks, completed, enriched, done_count, cbLog, crawlExc>>
    /\ UNCHANGED <<orchVars, retryVars, seqVars, fnVars>>

\* ------------------------------------------------ specifications
OrchLocalsIdle ==
    /\ pc = "idle"
    /\ active = FALSE
    /\ rs = InitialRunState
    /\ dbRun = CreatedRun(1)
    /\ companyStatus = [c \in Companies |-> "None"]
    /\ statusLog = <<>>
    /\ jobRows = [c \in Companies |-> 0]
    /\ ci = 0
    /\ total_found = 0
    /\ total_returned = 0
    /\ found = 0
    /\ passed = 0
    /\ exc = ""
    /\ ret = <<0, 0>>
    /\ crawled = [c \in Companies |-> -1]
    /\ lastPoll = [src |-> "none", companies_done |-> 0]
    /\ prevPoll = [src |-> "none", companies_done |-> 0]

OrchIdle == dbCompanies = 1 /\ dbResume = TRUE /\ OrchLocalsIdle

RetryIdle == req = [NewRequest EXCEPT !.state = "idle"]

CrawlLocals ==
    /\ offset = 0
    /\ total = -1
    /\ today_jobs = <<>>
    /\ seen_non_today = 0
    /\ fetched = <<>>
    /\ listings = <<>>
    /\ today = Date(0, 0, 0)
    /\ tasks = <<>>
    /\ completed = {}
    /\ enriched = <<>>
    /\ done_count = 0
    /\ cbLog = <<>>
    /\ crawlExc = ""

CrawlIdle == cpc = "idle" /\ CrawlLocals

\* the first employer of a run, none scanned yet
SeqIdle == emp = 1 /\ poolLog = <<>>

\* no call of a pure function is under way
NoUrl == [netloc |-> FALSE, host |-> <<>>, path |-> <<>>, query |-> FALSE]
NotParsed == [done |-> FALSE, ok |-> FALSE, host |-> <<>>, tenant |-> <<>>, site |-> <<>>]
UrlIdle == url = NoUrl /\ parseResult = NotParsed

\* app.py 186-189: the locals of the filter loop before it starts; calls is
\* the history of the predicate calls, scored that of the score_jobs_batch calls
NotFiltered ==
    [done |-> FALSE, filtered_jobs |-> <<>>, date_rejected |-> 0,
     title_rejected |-> 0, usa_rejected |-> 0, calls |-> <<>>, scored |-> <<>>]
FilterIdle == jobs = <<>> /\ filterOut = NotFiltered

\* no day has passed and no date.today() has been read
DayIdle == clock = 0 /\ dayEmp = 1 /\ dayPc = "discover" /\ dayJobs = 0 /\ refDays = <<>>

\* app.py 37: no start request has been made and _active_runs is empty
MaxRuns == 2
RunIds == 1..MaxRuns
NoReply == [id |-> 0, src |-> "none", status |-> "", known |-> FALSE]
StartIdle ==
    /\ startReq = [k \in RunIds |-> "idle"]
    /\ runsTable = [k \in RunIds |-> "absent"]
    /\ activeRuns = [k \in RunIds |-> "absent"]
    /\ scanner = [k \in RunIds |-> "none"]
    /\ statusReply = NoReply

FnIdle == UrlIdle /\ FilterIdle /\ DayIdle /\ StartIdle

Init ==
    /\ dbCompanies \in 0..MaxCompanies
    /\ dbResume \in BOOLEAN
    /\ pc = "spawned"
    /\ active = FALSE
    /\ rs = InitialRunState
    /\ dbRun = CreatedRun(dbCompanies)
    /\ companyStatus = [c \in Companies |-> "None"]
    /\ statusLog = <<>>
    /\ jobRows = [c \in Companies |-> 0]
    /\ ci = 0
    /\ total_found = 0
    /\ total_returned = 0
    /\ found = 0
    /\ passed = 0
    /\ exc = ""
    /\ ret = <<0, 0>>
    /\ crawled = [c \in Companies |-> -1]
    /\ lastPoll = [src |-> "none", companies_done |-> 0]
    /\ prevPoll = [src |-> "none", companies_done |-> 0]
    /\ RetryIdle
    /\ CrawlIdle
    /\ SeqIdle
    /\ FnIdle

Next ==
    \/ RunScannerStart
    \/ AbortPrecondition
    \/ LoadConfig
    \/ NextCompany
    \/ ResolveUrl
    \/ CrawlCompany
    \/ FilterJobs
    \/ ScoreJobs
    \/ WriteBatch
    \/ MarkSuccess
    \/ HandleError
    \/ CompanyDone
    \/ Finalize
    \/ FatalError
    \/ RunStatus

Spec == Init /\ [][Next]_vars

\* one call of _request_with_retry
InitRetry == OrchIdle /\ CrawlIdle /\ SeqIdle /\ FnIdle /\ req = NewRequest

NextRetry == Attempt \/ Sleep

SpecRetry == InitRetry /\ [][NextRetry]_vars

\* one call of crawl_company
InitCrawl == OrchIdle /\ RetryIdle /\ SeqIdle /\ FnIdle /\ cpc = "page" /\ CrawlLocals

NextCrawl ==
    \/ FetchPage
    \/ SubmitDetails
    \/ \E i \in DOMAIN tasks : StartTask(i)
    \/ \E i \in DOMAIN tasks : FetchOneDetail(i)
    \/ \E i \in DOMAIN tasks : CollectResult(i)
    \/ ReturnEnriched
    \/ RaiseAfterShutdown

SpecCrawl == InitCrawl /\ [][NextCrawl]_vars

\* -------------------------------------------------------------------
\* Properties of the orchestrator (Spec)
\* -------------------------------------------------------------------
Configured == dbCompanies > 0 /\ dbResume
LeftLoop == pc \in {"fatal", "returned", "died"}
Terminated == pc \in {"returned", "died"}
Succeeded == {c \in Companies : companyStatus[c] = "success"}

\* C1: once the status of the run's RunState is done or error it never
\* changes again, whatever fails during or after finalization.
C1_TerminalStatusNeverChanges ==
    [][rs.status \in {"done", "error"} => rs'.status = rs.status]_vars

\* C2: in a run started with at least one employer and a resume, an employer
\* whose URL does not resolve, or whose crawl, filtering, scoring or
\* persistence raises, is caught at the employer boundary: the scanner leaves
\* the loop only after the last employer, and the run ends in status done
\* (unless the finalizing write itself raised).
C2_EmployerErrorsNeverAbortRun ==
    Configured =>
        /\ (LeftLoop => rs.companies_done = rs.total_companies)
        /\ (Terminated /\ exc # "update_run" => rs.status = "done")

\* C3: a run is in status error only if no employers or no resume were
\* configured when it started.
C3_ErrorOnlyOnPrecondition ==
    rs.status = "error" => ~Configured

\* C4: a run started with no employers or no resume goes from running straight
\* to error with a precondition message (live phase, and the error_log of the
\* abort's write when that write commits); no employer is taken up, resolved or
\* crawled, no employer status is written, and companies_done, jobs_found and
\* jobs_returned stay 0.
C4_PreconditionAbort ==
    ~Configured =>
        /\ pc \in {"spawned", "load", "fatal", "returned", "died"}
        /\ (pc \in {"spawned", "load"} => rs.status = "running")
        /\ (pc \notin {"spawned", "load"} => rs.status = "error")
        /\ (pc = "fatal" \/ (Terminated /\ exc = "")
              => rs.phase \in {<<NoCompaniesMsg>>, <<NoResumeMsg>>})
        /\ (Terminated /\ exc = ""
              => /\ dbRun.status = "error"
                 /\ dbRun.error_log \in {TextLog(NoCompaniesMsg), TextLog(NoResumeMsg)})
        /\ statusLog = <<>>
        /\ \A c \in Companies :
              companyStatus[c] = "None" /\ crawled[c] = -1 /\ jobRows[c] = 0
        /\ rs.current_company = 0
        /\ rs.errors = <<>>
        /\ rs.companies_done = 0
        /\ rs.jobs_found = 0
        /\ rs.jobs_returned = 0

C4_Witness ==
    /\ ~Configured
    /\ pc = "returned"
    /\ rs.status = "error"
    /\ dbRun.error_log \in {TextLog(NoCompaniesMsg), TextLog(NoResumeMsg)}

\* C5: when the run is done, jobs_found and jobs_returned of the RunState are
\* the sums over the employers whose outcome is success; an employer whose
\* processing raised contributes 0 to both.
C5_FailedEmployerContributesNothing ==
    rs.status = "done" =>
        /\ rs.jobs_found = SumOver(Succeeded, crawled)
        /\ rs.jobs_returned = SumOver(Succeeded, jobRows)

\* C6: of two successive progress queries answered from the live RunState, the
\* later never reports a smaller companies_done than the earlier.
C6_CompaniesDoneMonotonic ==
    prevPoll.src = "live" /\ lastPoll.src = "live"
        => lastPoll.companies_done >= prevPoll.companies_done

C6_Witness ==
    /\ prevPoll.src = "live"
    /\ lastPoll.src = "live"
    /\ lastPoll.companies_done > prevPoll.companies_done
    /\ prevPoll.companies_done > 0

\* -------------------------------------------------------------------
\* Properties of one crawl (SpecCrawl)
\* -------------------------------------------------------------------
\* a startDate that is present and that datetime.fromisoformat accepts
PresentAndParseable(v) ==
    v.type = "string" /\ v.sep = "-" /\ v.date.m \in 1..12 /\ v.date.d \in 1..28

Fetched == {i \in DOMAIN tasks : tasks[i].state \in {"done", "collected"}}

\* C7: no record leaves the detail stage whose startDate is present, parseable
\* and on another calendar date than the crawl's reference date, whatever the
\* stub's label; a record whose startDate is absent or unparseable is kept: the
\* worker returns it, and it is in the result once its future was collected.
C7_DetailDateCheck ==
    /\ \A k \in 1..Len(enriched) :
          PresentAndParseable(enriched[k].start_date)
              => enriched[k].start_date.date = today
    /\ \A i \in Fetched :
          /\ (tasks[i].result = "record" /\ PresentAndParseable(tasks[i].start_date))
                => tasks[i].start_date.date = today
          /\ (tasks[i].fetch = "info" /\ ~PresentAndParseable(tasks[i].start_date))
                => /\ tasks[i].result = "record"
                   /\ tasks[i].state = "collected"
                        => \E k \in 1..Len(enriched) :
                              /\ enriched[k].external_path = i
                              /\ enriched[k].start_date = tasks[i].start_date

C7_Witness ==
    /\ cpc = "returned"
    /\ Len(enriched) = 1
    /\ \E i, j \in DOMAIN tasks :
          /\ listings[i].postedOn = "Posted Today"
          /\ tasks[i].fetch = "info"
          /\ PresentAndParseable(tasks[i].start_date)
          /\ tasks[i].start_date.date # today
          /\ tasks[i].result = "None"
          /\ tasks[j].fetch = "info"
          /\ tasks[j].start_date.type = "string"
          /\ ~PresentAndParseable(tasks[j].start_date)
          /\ enriched[1].external_path = j

TodayPlaces(hist) ==
    {<<p, i>> \in (1..Len(hist)) \X (1..MaxItems) :
        i <= Len(hist[p].postings) /\ hist[p].postings[i].postedOn = "Posted Today"}

PlaceOf(stub) == <<stub.page, stub.idx>>

Before(a, b) == a[1] < b[1] \/ (a[1] = b[1] /\ a[2] < b[2])

\* C8: pagination makes no request after the first page other than page 1 that
\* has no "Posted Today" item; a first page without such an item, not empty and
\* with more than a page announced, does not stop it; and the stubs collected
\* are exactly the items labelled exactly "Posted Today" of the pages fetched,
\* in page order.
C8_Pagination ==
    cpc \in {"page", "listed"} =>
        /\ \A p \in 2..Len(fetched) :
              (\A i \in 1..Len(fetched[p].postings) :
                   fetched[p].postings[i].postedOn # "Posted Today")
                 => p = Len(fetched) /\ cpc = "listed"
        /\ (/\ Len(fetched) = 1
            /\ fetched[1].kind = "json"
            /\ fetched[1].postings # <<>>
            /\ total > PageSize) => cpc = "page"
        /\ {PlaceOf(today_jobs[k]) : k \in 1..Len(today_jobs)} = TodayPlaces(fetched)
        /\ \A k \in 1..Len(today_jobs) : today_jobs[k].postedOn = "Posted Today"
        /\ \A k, l \in 1..Len(today_jobs) :
              k < l => Before(PlaceOf(today_jobs[k]), PlaceOf(today_jobs[l]))

C8_Witness ==
    /\ cpc = "listed"
    /\ Len(fetched) = 2
    /\ total > 2 * PageSize
    /\ fetched[1].postings = <<[postedOn |-> "Posted Yesterday"], [postedOn |-> "Posted Today"]>>
    /\ fetched[2].postings = <<[postedOn |-> "Posted Yesterday"], [postedOn |-> "posted today"]>>
    /\ today_jobs = <<[page |-> 1, idx |-> 2, postedOn |-> "Posted Today"]>>

\* -------------------------------------------------------------------
\* Properties of one request (SpecRetry)
\* -------------------------------------------------------------------
Attempts == {i \in 1..Len(req.events) : req.events[i].ev = "attempt"}

RetryableFailure(resp) ==
    resp.kind = "transport" \/ (resp.kind = "http" /\ (resp.status = 429 \/ resp.status >= 500))

\* C9: one logical request makes at most 3 HTTP attempts; a retryable failure
\* (429, >= 500, transport error) on attempt k (0-based) is followed at once by
\* a wait of 2 * 2^k seconds; so at least 2 s lie before attempt 2 and at least
\* 4 s between attempt 2 and attempt 3.
C9_BoundedAttemptsAndBackoff ==
    /\ Cardinality(Attempts) <= 3
    /\ \A i \in Attempts :
          RetryableFailure(req.events[i].resp) =>
              IF i = Len(req.events)
              THEN req.state = "sleep"
              ELSE /\ req.events[i + 1].ev = "sleep"
                   /\ req.events[i + 1].secs = 2 * (2 ^ req.events[i].k)
    /\ \A i, j \in Attempts :
          /\ (req.events[i].k = 0 /\ req.events[j].k = 1)
                => req.events[j].at - req.events[i].at >= 2
          /\ (req.events[i].k = 1 /\ req.events[j].k = 2)
                => req.events[j].at - req.events[i].at >= 4

C9_Witness ==
    /\ req.state \in {"returned", "raised"}
    /\ Cardinality(Attempts) = 3
    /\ \A i \in Attempts : RetryableFailure(req.events[i].resp)
    /\ req.clock = 14

\* C10: when all 3 attempts of a request end in a retryable failure, the
\* request ends in a failure that carries the last observed cause, for an HTTP
\* status as for a transport error.
C10_ExhaustedRetriesFailWithCause ==
    (/\ req.state \in {"returned", "raised"}
     /\ Cardinality(Attempts) = 3
     /\ \A i \in Attempts : RetryableFailure(req.events[i].resp))
        => /\ req.state = "raised"
           /\ req.result = "raise"
           /\ \E i \in Attempts : req.events[i].k = 2 /\ req.resp = req.events[i].resp

NonRetryable4xx(resp) ==
    resp.kind = "http" /\ resp.status \in 400..499 /\ resp.status # 429

\* C11: a response with an HTTP 4xx status other than 429 ends the request at
\* once with that HTTP error: the attempt that got it is the last thing the
\* request did, no wait follows it, and the error raised carries that response.
C11_ClientErrorFailsAtOnce ==
    \A i \in Attempts :
        NonRetryable4xx(req.events[i].resp) =>
            /\ i = Len(req.events)
            /\ req.state = "raised"
            /\ req.result = "raise"
            /\ req.resp = req.events[i].resp
            /\ req.clock = req.events[i].at

C11_Witness ==
    /\ req.state = "raised"
    /\ Len(req.events) = 1
    /\ req.events[1].resp = Http(404)
    /\ req.clock = 0

\* page p's request failed after its retries: for an HTTP-status cause
\* _request_with_retry gave None, for a transport cause it raised
PageRequestFailed(p) ==
    \/ fetched[p].kind = "None"
    \/ fetched[p].kind = "raise" /\ crawlExc = "transport"

\* C12: when the request of a discovery page fails with its retries exhausted,
\* for an HTTP-status cause or a transport cause, pagination stops there and
\* returns the stubs of the earlier pages: the crawl does not raise.
C12_FailedPageGivesPartialResult ==
    \A p \in 1..Len(fetched) :
        PageRequestFailed(p) =>
            /\ p = Len(fetched)
            /\ cpc # "page"
            /\ crawlExc # "transport"
            /\ cpc = "listed" =>
                  {PlaceOf(today_jobs[k]) : k \in 1..Len(today_jobs)} = TodayPlaces(fetched)

\* the detail of stub i could not be fetched or read: the request raised or
\* gave None, the answer had no jobPostingInfo, or the stub had no externalPath
DetailFailed(i) == tasks[i].fetch \in {"raise", "None", "noinfo", "KeyError"}

\* C13: a failure while fetching or reading the detail of one stub drops only
\* that stub: crawl_company does not raise, and every other stub whose record
\* passed the date check is in the result that crawl_company returns.
C13_DetailFailureDropsOnlyThatStub ==
    (\E i \in DOMAIN tasks : DetailFailed(i)) =>
        /\ cpc \notin {"draining", "raised"}
        /\ cpc = "returned" =>
              \A j \in DOMAIN tasks :
                  tasks[j].result = "record" =>
                      \E k \in 1..Len(enriched) : enriched[k].external_path = j

\* C14: in the detail stage over N stubs the k-th progress callback reports
\* (k, N), whatever the order in which the workers finish, and when the stage
\* has ended the callback was invoked exactly N times.
C14_DetailProgressCounts ==
    /\ \A k \in 1..Len(cbLog) : cbLog[k] = <<k, Len(listings)>>
    /\ cpc \in {"returned", "raised"} => Len(cbLog) = Len(listings)

\* -------------------------------------------------------------------
\* The employers of a run in sequence (SpecSeq): the loop of _run_scanner
\* around crawl_company, with discovery as one step and the detail pool of
\* each employer in full.
\* -------------------------------------------------------------------
\* workday.py 241 with 107-158: fetch_all_listings from its call to its end;
\* it returns the "Posted Today" stubs or raises
DiscoverAll ==
    /\ cpc = "start"
    /\ \/ \E n \in 0..MaxStubs :
            /\ today_jobs' = [i \in 1..n |->
                                 [page |-> 1, idx |-> i, postedOn |-> "Posted Today"]]
            /\ cpc' = "listed"
            /\ crawlExc' = crawlExc
       \/ /\ cpc' = "raised"
          /\ crawlExc' \in {"transport", "http", "KeyError"}
          /\ today_jobs' = today_jobs
    /\ UNCHANGED <<offset, total, seen_non_today, fetched, listings, today, tasks,
                   completed, enriched, done_count, cbLog>>
    /\ UNCHANGED <<orchVars, retryVars, seqVars, fnVars>>

\* app.py 179-260: crawl_company has returned or raised; _scan_one_company
\* filters, scores and writes, or handles the exception, and returns
ProcessJobs ==
    /\ cpc \in {"returned", "raised"}
    /\ cpc' = "scanned"
    /\ poolLog' = Append(poolLog, [emp |-> emp, stubs |-> Len(tasks), crawl |-> cpc])
    /\ emp' = emp
    /\ UNCHANGED <<offset, total, today_jobs, seen_non_today, fetched, listings, today,
                   tasks, completed, enriched, done_count, cbLog, crawlExc>>
    /\ UNCHANGED <<orchVars, retryVars, fnVars>>

\* app.py 314-321, then 157-179 and workday.py 241-245 for the next employer:
\* a new call of crawl_company with new locals
NextEmployer ==
    /\ cpc = "scanned"
    /\ emp < MaxCompanies
    /\ emp' = emp + 1
    /\ poolLog' = poolLog
    /\ cpc' = "start"
    /\ offset' = 0
    /\ total' = -1
    /\ today_jobs' = <<>>
    /\ seen_non_today' = 0
    /\ fetched' = <<>>
    /\ listings' = <<>>
    /\ today' = Date(0, 0, 0)
    /\ tasks' = <<>>
    /\ completed' = {}
    /\ enriched' = <<>>
    /\ done_count' = 0
    /\ cbLog' = <<>>
    /\ crawlExc' = ""
    /\ UNCHANGED <<orchVars, retryVars, fnVars>>

InitSeq == OrchIdle /\ RetryIdle /\ SeqIdle /\ FnIdle /\ cpc = "start" /\ CrawlLocals

NextSeq ==
    \/ DiscoverAll
    \/ SubmitDetails
    \/ \E i \in DOMAIN tasks : StartTask(i)
    \/ \E i \in DOMAIN tasks : FetchOneDetail(i)
    \/ \E i \in DOMAIN tasks : CollectResult(i)
    \/ ReturnEnriched
    \/ RaiseAfterShutdown
    \/ ProcessJobs
    \/ NextEmployer

SpecSeq == InitSeq /\ [][NextSeq]_vars

C16_DiscoveryBeforeDetails ==
    /\ [](/\ cpc \in {"page", "listed"} => tasks = <<>> /\ cbLog = <<>>
          /\ \A k \in 1..Len(cbLog) : cbLog[k][2] = Len(tasks))
    /\ [][/\ (cpc = "listed" /\ cpc' # "listed") => Len(tasks') = Len(today_jobs)
          /\ cpc \notin {"page", "listed"} => Len(tasks') = Len(tasks)]_vars

C16_Witness ==
    /\ cpc = "returned"
    /\ Len(tasks) = 2
    /\ cbLog = <<<<1, 2>>, <<2, 2>>>>
    /\ Len(enriched) = 1

\* C17: when the run's thread has ended, the run row has received its
\* finalizing write: it holds the terminal status of the run, the run's final
\* aggregate counts and the list of all run-level errors (the empty list when
\* there are none); and once the row is finalized it is not written again.
C17_OneFinalizingWrite ==
    /\ [](Terminated =>
            /\ dbRun.finished
            /\ dbRun.status = rs.status
            /\ dbRun.total_companies = rs.total_companies
            /\ dbRun.total_jobs_found = total_found
            /\ dbRun.total_jobs_returned = total_returned
            /\ dbRun.error_log = JsonDumps(rs.errors))
    /\ [][dbRun.finished => dbRun' = dbRun]_vars

Failed == {c \in Companies : companyStatus[c] \in {"invalid_url", "error"}}

ErrorsOf(c) == {k \in 1..Len(rs.errors) : rs.errors[k][1] = c}

\* C18: when a run is done its error list holds exactly one entry, naming the
\* employer, for every employer with outcome invalid_url or error, none for
\* any other employer, and the entries are in employer processing order.
C18_OneErrorPerFailedEmployer ==
    rs.status = "done" =>
        /\ \A c \in Failed : Cardinality(ErrorsOf(c)) = 1
        /\ \A c \in Companies \ Failed : ErrorsOf(c) = {}
        /\ \A k, l \in 1..Len(rs.errors) : k < l => rs.errors[k][1] < rs.errors[l][1]

\* -------------------------------------------------------------------
\* A run while the remote side is down (SpecOutage): every attempt of every
\* request times out, fails to connect or is answered with a 5xx status.
\* The employers are scanned as in SpecSeq, each request attempt by attempt.
\* -------------------------------------------------------------------
OutageResponses == {Http(500), Http(503), Transport}

\* workday.py 120 with 91-104: fetch_listings calls _request_with_retry
BeginPageRequest ==
    /\ cpc = "start"
    /\ cpc' = "request"
    /\ req' = NewRequest
    /\ UNCHANGED <<offset, total, today_jobs, seen_non_today, fetched, listings, today,
                   tasks, completed, enriched, done_count, cbLog, crawlExc>>
    /\ UNCHANGED <<orchVars, seqVars, fnVars>>

\* workday.py 71-75, 82: an attempt made during the outage
AttemptDuringOutage ==
    /\ req.state = "try"
    /\ \E resp \in OutageResponses : req' = AttemptStep(req, resp)
    /\ UNCHANGED <<orchVars, crawlVars, seqVars, fnVars>>

\* workday.py 120-122: _request_with_retry gave None (the loop breaks and the
\* stubs collected, none, are returned) or raised (nothing catches it here)
EndPageRequest ==
    /\ cpc = "request"
    /\ req.state \in {"returned", "raised"}
    /\ IF req.state = "raised"
       THEN /\ cpc' = "raised"
            /\ crawlExc' = req.resp.kind
            /\ fetched' = Append(fetched, [kind |-> "raise", postings |-> <<>>])
       ELSE /\ cpc' = "listed"
            /\ crawlExc' = crawlExc
            /\ fetched' = Append(fetched, [kind |-> "None", postings |-> <<>>])
    /\ req' = [NewRequest EXCEPT !.state = "idle"]
    /\ UNCHANGED <<offset, total, today_jobs, seen_non_today, listings, today,
                   tasks, completed, enriched, done_count, cbLog>>
    /\ UNCHANGED <<orchVars, seqVars, fnVars>>

\* app.py 323-325: the loop is over, the run is done
ReachFinalization ==
    /\ cpc = "scanned"
    /\ emp = MaxCompanies
    /\ rs.status = "running"
    /\ rs' = [rs EXCEPT !.status = "done", !.phase = <<"Complete">>]
    /\ UNCHANGED <<dbCompanies, dbResume, pc, active, dbRun, companyStatus, statusLog,
                   jobRows, ci, total_found, total_returned, found, passed, exc, ret,
                   crawled, lastPoll, prevPoll>>
    /\ UNCHANGED <<retryVars, crawlVars, seqVars, fnVars>>

NextOutage ==
    \/ BeginPageRequest
    \/ AttemptDuringOutage
    \/ Sleep
    \/ EndPageRequest
    \/ SubmitDetails
    \/ ReturnEnriched
    \/ ProcessJobs
    \/ NextEmployer
    \/ ReachFinalization

\* the thread of the run is scheduled, and sleeps and request timeouts end
SpecOutage == InitSeq /\ [][NextOutage]_vars /\ WF_vars(NextOutage)

\* C19: while the remote side is down a run still reaches a terminal status:
\* no request makes more than 3 attempts, the discovery and detail stages of
\* every employer end, and the orchestrator reaches finalization.
C19_OutageRunTerminates ==
    /\ [](Cardinality(Attempts) <= 3)
    /\ <>(/\ rs.status \in {"done", "error"}
          /\ Len(poolLog) = MaxCompanies)

C19_Witness ==
    /\ rs.status = "done"
    /\ Len(poolLog) = MaxCompanies
    /\ \E i, j \in 1..Len(poolLog) :
          poolLog[i].crawl = "raised" /\ poolLog[j].crawl = "returned"

\* -------------------------------------------------------------------
\* parse_workday_url (SpecUrl), crawler/workday.py 17-47.  A URL is what
\* follows the scheme: whether "//" and a host are there, the labels of the
\* host, and the items after it, path segments and "?" marks.  A label or a
\* segment is a sequence of characters, each standing for its class: "a" "l"
\* lowercase letters, "A" "U" uppercase letters, "5" a digit, and the letters
\* and words the patterns of the code name.
\* -------------------------------------------------------------------
QMark == <<"?">>
Segments ==
    {<<>>,
     <<"l", "l", "-", "U", "U">>,
     <<"l", "l", "-", "l", "l">>,
     <<"U", "U", "-", "U", "U">>,
     <<"l", "l", "l", "_", "l">>,
     <<"l", "l", "l">>}
Tails == UNION {[1..n -> Segments \cup {QMark}] : n \in 0..MaxTail}

CanonicalHost == <<<<"a", "a">>, <<"w", "d", "5">>, <<"myworkdayjobs">>, <<"com">>>>
TenantLabels == {<<"a", "a">>, <<"A", "a">>, <<>>}
WdLabels ==
    {<<"w", "d", "5">>, <<"W", "D", "5">>, <<"w", "d">>, <<"w", "d", "a">>,
     <<"w", "d", "5", "5">>, <<"a", "w", "d", "5">>}
PlatformLabels == {<<"myworkdayjobs">>, <<"MYWORKDAYJOBS">>, <<"example">>}
TopLabels == {<<"com">>, <<"org">>}
Hosts ==
    {[CanonicalHost EXCEPT ![1] = t] : t \in TenantLabels}
      \cup {[CanonicalHost EXCEPT ![2] = w] : w \in WdLabels}
      \cup {[CanonicalHost EXCEPT ![3] = p] : p \in PlatformLabels}
      \cup {[CanonicalHost EXCEPT ![4] = c] : c \in TopLabels}
      \cup {<<>>,
            SubSeq(CanonicalHost, 2, 4),
            <<<<"a">>>> \o CanonicalHost,
            CanonicalHost \o <<<<"evil">>>>}
Urls == [netloc : BOOLEAN, host : Hosts, tail : Tails]

\* urllib.parse: hostname is the host in lower case
Lower(ch) ==
    CASE ch = "A" -> "a"
      [] ch = "W" -> "w"
      [] ch = "D" -> "d"
      [] ch = "MYWORKDAYJOBS" -> "myworkdayjobs"
      [] OTHER -> ch
LowerLabel(lab) == [i \in DOMAIN lab |-> Lower(lab[i])]

\* workday.py 28-29: urlparse(url).hostname, <<>> for None (no "//", or no host)
Hostname(u) ==
    IF u.netloc THEN [i \in DOMAIN u.host |-> LowerLabel(u.host[i])] ELSE <<>>

\* workday.py 28, 40: urlparse(url).path, what stands before the first "?"
PathOf(u) ==
    LET marks == {i \in DOMAIN u.tail : u.tail[i] = QMark}
        cut == IF marks = {} THEN Len(u.tail) + 1
               ELSE CHOOSE i \in marks : \A j \in marks : i <= j
    IN  SubSeq(u.tail, 1, cut - 1)

\* workday.py 30: "myworkdayjobs.com" in host
ContainsPlatform(host) ==
    \E i \in 1..(Len(host) - 1) :
        host[i] = <<"myworkdayjobs">> /\ host[i + 1] = <<"com">>

IsDigit(ch) == ch = "5"

\* workday.py 34: ^([^.]+)\.wd\d+\.myworkdayjobs\.com$
TenantMatch(host) ==
    /\ Len(host) = 4
    /\ host[1] # <<>>
    /\ Len(host[2]) >= 3
    /\ host[2][1] = "w"
    /\ host[2][2] = "d"
    /\ \A i \in 3..Len(host[2]) : IsDigit(host[2][i])
    /\ host[3] = <<"myworkdayjobs">>
    /\ host[4] = <<"com">>

\* workday.py 42: ^[a-z]{2}-[A-Z]{2}$
IsLocale(p) ==
    /\ Len(p) = 5
    /\ p[1] = "l" /\ p[2] = "l"
    /\ p[3] = "-"
    /\ p[4] = "U" /\ p[5] = "U"

\* workday.py 40-42: the segments that are not empty and not a locale
PathParts(u) == SelectSeq(PathOf(u), LAMBDA p : p # <<>> /\ ~IsLocale(p))

\* mutant: the site is the last segment, as the comment of the code says
SiteOf_Last(path_parts) == path_parts[Len(path_parts)]

\* workday.py 45: site = path_parts[0]
SiteOf(path_parts) == path_parts[1]

\* workday.py 17-47
ParseWorkdayUrl(u) ==
    LET host == Hostname(u)
        none == [NotParsed EXCEPT !.done = TRUE]
    IN  IF host = <<>> \/ ~ContainsPlatform(host) THEN none
        ELSE IF ~TenantMatch(host) THEN none
        ELSE IF PathParts(u) = <<>> THEN none
        ELSE [done |-> TRUE, ok |-> TRUE, host |-> host, tenant |-> host[1],
              site |-> SiteOf(PathParts(u))]

CallParseWorkdayUrl ==
    /\ ~parseResult.done
    /\ parseResult' = ParseWorkdayUrl(url)
    /\ url' = url
    /\ UNCHANGED <<filterVars, dayVars, startVars>>
    /\ UNCHANGED <<orchVars, retryVars, crawlVars, seqVars>>

InitUrl ==
    /\ OrchIdle /\ RetryIdle /\ CrawlIdle /\ SeqIdle /\ FilterIdle /\ DayIdle /\ StartIdle
    /\ url \in Urls
    /\ parseResult = NotParsed

NextUrl == CallParseWorkdayUrl

SpecUrl == InitUrl /\ [][NextUrl]_vars

\* the host is <tenant>.wd<digits>.myworkdayjobs.com, in any letter case
HostHasTenantForm(u) ==
    /\ u.netloc
    /\ Len(u.host) = 4
    /\ u.host[1] \in {<<"a", "a">>, <<"A", "a">>}
    /\ u.host[2] \in {<<"w", "d", "5">>, <<"W", "D", "5">>, <<"w", "d", "5", "5">>}
    /\ u.host[3] \in {<<"myworkdayjobs">>, <<"MYWORKDAYJOBS">>}
    /\ u.host[4] = <<"com">>

\* the places of the path, before any "?", that hold a segment other than a
\* locale segment
SitePlaces(u) ==
    {i \in DOMAIN u.tail :
        /\ \A j \in 1..i : u.tail[j] # QMark
        /\ u.tail[i] \notin {<<>>, <<"l", "l", "-", "U", "U">>}}

ProcessingEnded(c) ==
    \/ c <= ci
    \/ /\ c = ci + 1
       /\ \/ pc = "ret"
          \/ LeftLoop /\ exc = "update_company_run_status"

StatusWritesOf(c) == {k \in 1..Len(statusLog) : statusLog[k][1] = c}

\* C21: for every employer processed in a run exactly one outcome status
\* (success, invalid_url or error) is written, never more than one, and none
\* while the employer's URL is being resolved or its crawl is under way.
C21_OneStatusPerEmployer ==
    \A c \in Companies :
        /\ Cardinality(StatusWritesOf(c)) <= 1
        /\ \A k \in StatusWritesOf(c) :
              statusLog[k][2] \in {"success", "invalid_url", "error"}
        /\ (c = ci + 1 /\ pc \in {"resolve", "crawl"}) => StatusWritesOf(c) = {}
        /\ (Configured /\ c <= dbCompanies /\ ProcessingEnded(c))
              => Cardinality(StatusWritesOf(c)) = 1

\* the handler has taken the exception of employer c's batch write
BatchWriteFailed(c) ==
    \E k \in 1..Len(rs.errors) : rs.errors[k] = <<c, "upsert_jobs_batch">>

\* C22: while the batch write of an employer has not returned or raised, no
\* later employer has been touched; and when the batch write of an employer
\* raises, the run-level error is appended, the employer is recorded as error
\* and the loop goes on past it.
C22_BatchWriteBeforeNextEmployer ==
    /\ pc = "write" =>
          \A c \in Companies :
              c > ci + 1 => crawled[c] = -1 /\ StatusWritesOf(c) = {} /\ ErrorsOf(c) = {}
    /\ \A c \in Companies :
          BatchWriteFailed(c) =>
              /\ companyStatus[c] = "error"
              /\ c <= ci \/ pc = "ret"

\* -------------------------------------------------------------------
\* Filtering and scoring of one employer's records (SpecFilter), app.py
\* 185-218.  A record carries what the three predicates answer for it.
\* -------------------------------------------------------------------
JobRecords(n) ==
    {js \in [1..n -> [id : 1..n, date : BOOLEAN, title : BOOLEAN, usa : BOOLEAN]] :
        \A i \in 1..n : js[i].id = i}
JobLists == UNION {JobRecords(n) : n \in 0..MaxJobs}

\* app.py 191-200: the predicates called for one record, in call order; the
\* first that fails ends them
PredicateCalls(job) ==
    IF ~job.date THEN <<"is_posted_today">>
    ELSE IF ~job.title THEN <<"is_posted_today", "is_relevant_job">>
    ELSE <<"is_posted_today", "is_relevant_job", "is_usa_job">>

\* app.py 191-202: the predicate that rejects the record, "" when it is kept
RejectedBy(job) ==
    IF ~job.date THEN "date"
    ELSE IF ~job.title THEN "title"
    ELSE IF ~job.usa THEN "usa"
    ELSE ""

\* app.py 190-202: the filter loop over the records i, i + 1, ...
RECURSIVE FilterLoop(_, _, _)
FilterLoop(js, i, acc) ==
    IF i > Len(js) THEN acc
    ELSE LET why == RejectedBy(js[i])
             called == [k \in 1..Len(PredicateCalls(js[i])) |->
                           <<js[i].id, PredicateCalls(js[i])[k]>>]
         IN  FilterLoop(js, i + 1,
                 [acc EXCEPT
                    !.calls = @ \o called,
                    !.date_rejected = @ + (IF why = "date" THEN 1 ELSE 0),
                    !.title_rejected = @ + (IF why = "title" THEN 1 ELSE 0),
                    !.usa_rejected = @ + (IF why = "usa" THEN 1 ELSE 0),
                    !.filtered_jobs = IF why = "" THEN Append(@, js[i]) ELSE @])

\* mutant: the scorer is called once for every record that passed
ScoreCalls_PerRecord(filtered_jobs) ==
    [i \in 1..Len(filtered_jobs) |-> <<filtered_jobs[i]>>]

\* app.py 210-218: no call when nothing passed, else one call with the batch
ScoreCalls(filtered_jobs) ==
    IF filtered_jobs = <<>> THEN <<>> ELSE <<filtered_jobs>>

\* app.py 185-218
FilterAndScore ==
    /\ ~filterOut.done
    /\ LET out == FilterLoop(jobs, 1, NotFiltered)
       IN  filterOut' = [out EXCEPT !.done = TRUE,
                                    !.scored = ScoreCalls(out.filtered_jobs)]
    /\ jobs' = jobs
    /\ UNCHANGED <<urlVars, dayVars, startVars>>
    /\ UNCHANGED <<orchVars, retryVars, crawlVars, seqVars>>

InitFilter ==
    /\ OrchIdle /\ RetryIdle /\ CrawlIdle /\ SeqIdle /\ UrlIdle /\ DayIdle /\ StartIdle
    /\ jobs \in JobLists
    /\ filterOut = NotFiltered

NextFilter == FilterAndScore

SpecFilter == InitFilter /\ [][NextFilter]_vars

PassedAll == {i \in 1..Len(jobs) : jobs[i].date /\ jobs[i].title /\ jobs[i].usa}

CallsFor(i) ==
    {filterOut.calls[k][2] : k \in {n \in 1..Len(filterOut.calls) : filterOut.calls[n][1] = i}}

\* C23: for one employer the scorer is called at most once, and not at all
\* when no record passed; the one call gets exactly the records that passed
\* all three filters, in crawl order; and a record is tested by date, then
\* title, then location, no test being made after the first that fails.
C23_ScoreOncePerEmployer ==
    filterOut.done =>
        /\ Len(filterOut.scored) <= 1
        /\ filterOut.scored = <<>> <=> PassedAll = {}
        /\ filterOut.scored # <<>> =>
              LET batch == filterOut.scored[1]
              IN  /\ {batch[k].id : k \in 1..Len(batch)} = PassedAll
                  /\ \A k, l \in 1..Len(batch) : k < l => batch[k].id < batch[l].id
        /\ \A i \in 1..Len(jobs) :
              /\ "is_posted_today" \in CallsFor(i)
              /\ "is_relevant_job" \in CallsFor(i) <=> jobs[i].date
              /\ "is_usa_job" \in CallsFor(i) <=> (jobs[i].date /\ jobs[i].title)

C23_Witness ==
    /\ filterOut.done
    /\ Len(jobs) = 2
    /\ PassedAll = {1, 2}
    /\ Len(filterOut.scored) = 1
    /\ Len(filterOut.scored[1]) = 2

\* -------------------------------------------------------------------
\* The calendar during a run (SpecDay): every place of the code that reads
\* date.today(), while the day may change between any two steps.
\* -------------------------------------------------------------------
MaxDays == 1

DayOthersUnchanged ==
    UNCHANGED <<orchVars, retryVars, crawlVars, seqVars, urlVars, filterVars, startVars>>

\* the calendar day changes; no code of the program is involved
Midnight ==
    /\ clock < MaxDays
    /\ clock' = clock + 1
    /\ UNCHANGED <<dayEmp, dayPc, dayJobs, refDays>>
    /\ DayOthersUnchanged

\* workday.py 241-251: after discovery crawl_company reads date.today() once
\* and hands that value to every detail task of this employer
CrawlCompanyToday ==
    /\ dayPc = "discover"
    /\ refDays' = Append(refDays, <<dayEmp, "detail", clock>>)
    /\ dayPc' = "filter"
    /\ UNCHANGED <<clock, dayEmp, dayJobs>>
    /\ DayOthersUnchanged

\* posted_today.py 14-22: a record with a label is judged by the label alone
\* and no date is read; 24-32: a record without label but with a start date is
\* compared with a date.today() read for this record
IsPostedTodayCall ==
    /\ dayPc = "filter"
    /\ dayJobs < MaxJobs
    /\ dayJobs' = dayJobs + 1
    /\ \E labelled \in BOOLEAN :
          refDays' = IF labelled THEN refDays
                     ELSE Append(refDays, <<dayEmp, "filter", clock>>)
    /\ UNCHANGED <<clock, dayEmp, dayPc>>
    /\ DayOthersUnchanged

\* app.py 314-321: the loop goes to the next employer, or ends
EmployerDone ==
    /\ dayPc = "filter"
    /\ dayJobs' = 0
    /\ IF dayEmp < MaxCompanies
          THEN dayEmp' = dayEmp + 1 /\ dayPc' = "discover"
          ELSE dayEmp' = dayEmp /\ dayPc' = "done"
    /\ UNCHANGED <<clock, refDays>>
    /\ DayOthersUnchanged

InitDay ==
    /\ OrchIdle /\ RetryIdle /\ CrawlIdle /\ SeqIdle /\ UrlIdle /\ FilterIdle /\ StartIdle
    /\ DayIdle

NextDay == Midnight \/ CrawlCompanyToday \/ IsPostedTodayCall \/ EmployerDone

SpecDay == InitDay /\ [][NextDay]_vars

\* C24: within one run every date.today() the program compares a posting date
\* with has the same value: for every employer, in the detail stage and in the
\* later date filter, also when the calendar day changes during the run.
C24_OneReferenceDate ==
    \A k, l \in 1..Len(refDays) : refDays[k][3] = refDays[l][3]

\* C25: in every RunState the number of employers done lies between 0 and the
\* number of employers of the run, once the latter has been set; and when the
\* status is done the two are equal.
C25_CompaniesDoneWithinTotal ==
    active =>
        /\ rs.companies_done >= 0
        /\ pc \notin {"spawned", "load"} => rs.companies_done <= rs.total_companies
        /\ rs.status = "done" => rs.companies_done = rs.total_companies

C25_Witness ==
    /\ active
    /\ rs.status = "done"
    /\ rs.total_companies = MaxCompanies
    /\ rs.companies_done = MaxCompanies
    /\ rs.errors # <<>>

\* the page requests made so far: the calls of fetch_listings
PageRequests == Len(fetched)

\* ceil(t / PageSize) for t >= 0
PagesFor(t) == (t + PageSize - 1) \div PageSize

\* the most page requests the first page's total allows
MostPageRequests == IF total <= 0 \/ PagesFor(total) < 1 THEN 1 ELSE PagesFor(total)

\* fetch_all_listings has returned or raised and no detail task exists yet
DiscoveryEnded == cpc = "listed" \/ (cpc = "raised" /\ tasks = <<>>)

\* C26: discovery for one employer makes at least one page request and at
\* most max(1, ceil(total / 20)), total being the count the first page
\* reported; once set, total is not changed by a later page.
C26_PageRequestsBounded ==
    /\ [](/\ cpc = "page" => PageRequests <= MostPageRequests
          /\ DiscoveryEnded => PageRequests >= 1 /\ PageRequests <= MostPageRequests)
    /\ [][cpc = "page" /\ total # -1 => total' = total]_vars

C26_Witness ==
    /\ cpc = "listed"
    /\ total = MaxPages * PageSize
    /\ PageRequests = MaxPages
    /\ \A k \in 1..Len(fetched) :
          /\ fetched[k].kind = "json"
          /\ \E i \in 1..Len(fetched[k].postings) : IsPostedToday(fetched[k].postings[i].postedOn)

\* -------------------------------------------------------------------
\* Starting runs and asking for their status (SpecStart): app.py 345-378
\* with the scanner thread of each run in three coarse steps.  Request k
\* gets run id k (create_run draws a fresh id).  The requests, the
\* scanner threads and the status queries interleave freely.
\* -------------------------------------------------------------------
StartOthersUnchanged ==
    UNCHANGED <<pc, active, rs, dbRun, companyStatus, statusLog, jobRows, ci,
                total_found, total_returned, found, passed, exc, ret, crawled,
                lastPoll, prevPoll, dbCompanies, dbResume,
                retryVars, crawlVars, seqVars, urlVars, filterVars, dayVars>>

\* mutant: create_run hands out the id without a committed row
RowsAfterCreate_NotCommitted(rows, k) == rows

\* database.py 236-247: the row is inserted with status running and committed
RowsAfterCreate(rows, k) == [rows EXCEPT ![k] = "running"]

\* app.py 346-356: the prerequisite checks and create_run
StartRunCreate(k) ==
    /\ startReq[k] = "idle"
    /\ \A j \in RunIds : j < k => startReq[j] # "idle"
    /\ IF dbCompanies = 0 \/ ~dbResume
       THEN /\ startReq' = [startReq EXCEPT ![k] = "400"]
            /\ runsTable' = runsTable
       ELSE \E ok \in BOOLEAN :
              IF ok
              THEN /\ runsTable' = RowsAfterCreate(runsTable, k)
                   /\ startReq' = [startReq EXCEPT ![k] = "created"]
              ELSE /\ runsTable' = runsTable
                   /\ startReq' = [startReq EXCEPT ![k] = "500"]
    /\ UNCHANGED <<activeRuns, scanner, statusReply>>
    /\ StartOthersUnchanged

\* app.py 357-363: total_companies is written, the thread is started and the
\* run id is returned; nothing looks at the runs that exist already
StartRunSpawn(k) ==
    /\ startReq[k] = "created"
    /\ \E ok \in BOOLEAN :
         IF ok
         THEN /\ scanner' = [scanner EXCEPT ![k] = "started"]
              /\ startReq' = [startReq EXCEPT ![k] = "returned"]
         ELSE /\ scanner' = scanner
              /\ startReq' = [startReq EXCEPT ![k] = "500"]
    /\ UNCHANGED <<runsTable, activeRuns, statusReply>>
    /\ StartOthersUnchanged

\* app.py 264-275: the thread's first statement registers the RunState
ScannerRegister(k) ==
    /\ scanner[k] = "started"
    /\ scanner' = [scanner EXCEPT ![k] = "running"]
    /\ activeRuns' = [activeRuns EXCEPT ![k] = "running"]
    /\ UNCHANGED <<startReq, runsTable, statusReply>>
    /\ StartOthersUnchanged

\* app.py 277-342: the scan itself, to its end; the closing update_run may raise
ScannerFinish(k) ==
    /\ scanner[k] = "running"
    /\ scanner' = [scanner EXCEPT ![k] = "finished"]
    /\ \E outcome \in {"done", "error"}, ok \in BOOLEAN :
         /\ activeRuns' = [activeRuns EXCEPT ![k] = IF ok THEN outcome ELSE "error"]
         /\ runsTable' = IF ok THEN [runsTable EXCEPT ![k] = outcome] ELSE runsTable
    /\ UNCHANGED <<startReq, statusReply>>
    /\ StartOthersUnchanged

\* app.py 366-378: the live RunState, else the row, else "Run not found"
RunStatusQuery(k) ==
    /\ statusReply' =
          [id |-> k,
           src |-> IF activeRuns[k] # "absent" THEN "live"
                   ELSE IF runsTable[k] # "absent" THEN "db"
                   ELSE "not_found",
           status |-> IF activeRuns[k] # "absent" THEN activeRuns[k]
                      ELSE IF runsTable[k] # "absent" THEN runsTable[k]
                      ELSE "",
           known |-> startReq[k] = "returned"]
    /\ UNCHANGED <<startReq, runsTable, activeRuns, scanner>>
    /\ StartOthersUnchanged

InitStart ==
    /\ dbCompanies \in 0..MaxCompanies
    /\ dbResume \in BOOLEAN
    /\ OrchLocalsIdle
    /\ RetryIdle /\ CrawlIdle /\ SeqIdle /\ UrlIdle /\ FilterIdle /\ DayIdle
    /\ StartIdle

NextStart ==
    \E k \in RunIds :
        \/ StartRunCreate(k)
        \/ StartRunSpawn(k)
        \/ ScannerRegister(k)
        \/ ScannerFinish(k)
        \/ RunStatusQuery(k)

SpecStart == InitStart /\ [][NextStart]_vars

\* C27: a run_status query for an id that start_run has returned answers
\* with the live RunState or with the persisted run, never "Run not found",
\* also while the thread has not yet registered the RunState.
C27_ReturnedRunIsFound ==
    statusReply.known =>
        /\ statusReply.src \in {"live", "db"}
        /\ statusReply.status \in {"running", "done", "error"}

C27_Witness ==
    /\ statusReply.known
    /\ statusReply.src = "db"
    /\ statusReply.status = "running"
    /\ scanner[statusReply.id] = "started"

\* the runs whose scanner thread has been started and has not ended
Scanning == {k \in RunIds : scanner[k] \in {"started", "running"}}

\* C30: at most one run is running at any time: a start request made while
\* another run is running starts no second scanner thread.
C30_OneRunAtATime ==
    /\ Cardinality(Scanning) <= 1
    /\ Cardinality({k \in RunIds : activeRuns[k] = "running"}) <= 1

\* C28: when a run finishes in status done, the counters of the live
\* RunState equal those of the persisted run record, whatever the
\* employers' outcomes were.
C28_LiveCountersMatchPersisted ==
    (pc = "returned" /\ rs.status = "done" /\ dbRun.status = "done") =>
        /\ rs.jobs_found = dbRun.total_jobs_found
        /\ rs.jobs_returned = dbRun.total_jobs_returned

\* C29: in every RunState jobs_returned is at most jobs_found, and neither
\* counter ever decreases during a run.
C29_CountersOrderedAndMonotonic ==
    /\ [](active => rs.jobs_returned <= rs.jobs_found)
    /\ [][active => /\ rs'.jobs_found >= rs.jobs_found
                    /\ rs'.jobs_returned >= rs.jobs_returned]_vars

C29_Witness ==
    /\ active
    /\ rs.status = "done"
    /\ rs.jobs_returned > 0
    /\ rs.jobs_returned < rs.jobs_found
    /\ rs.errors # <<>>

=============================================================================
